---- MODULE Spec2Model ----
(***************************************************************************)
(* Model of run_test_parallel.py: a manifest of test suites is filtered    *)
(* into a task list, max_workers install copies are put on a queue, the    *)
(* tasks are run by a thread pool of max_workers threads (run_test), and   *)
(* the main thread reports every finished future and exits.                *)
(*                                                                         *)
(* Strings are sequences of tokens, so that f"{folder}_{subtest}" is a     *)
(* real concatenation: "a_b" is <<"a", "_", "b">>.                          *)
(***************************************************************************)
EXTENDS Integers, Sequences, FiniteSets, TLC

VARIABLES
    tests,          \* json.load(f): sequence of [folder, info], info a sequence of [sub, state]
    filter_state,   \* args.filter_state, a set of state names
    max_workers,    \* args.max_workers
    keep_pass_logs, \* args.keep_pass_logs
    mpc,            \* position of the main thread
    tasks,          \* the task list of main
    install_paths,  \* the install copies made by main
    pool_threads,   \* the number of threads of the ThreadPoolExecutor
    install_queue,  \* Queue of install copies
    pc,             \* position of each submitted run_test call
    install_prefix, \* the install copy a run_test call holds
    result,         \* what a run_test call is about to return or raise
    outcome,        \* the state of each future
    yielded,        \* how many times as_completed has yielded each future
    reported,       \* the result lines printed for each future, in order
    warned,         \* the [WARN] lines written to the master log for each call
    cur,            \* the future the main thread is reporting
    cur_line,       \* the line the main thread is printing
    log_files,      \* the names of the files present in logs_dir
    log_written,    \* what each call has written to the log it opened, in order
    failures,       \* the failures list of main
    exit_status     \* the exit status of the process

vars == <<tests, filter_state, max_workers, keep_pass_logs, mpc, tasks,
          install_paths, pool_threads, install_queue, pc, install_prefix,
          result, outcome, yielded, reported, warned, cur, cur_line,
          log_files, log_written, failures, exit_status>>

\* ---------------------------------------------------------------- bounds

MaxWorkers == 2

\* ---------------------------------------------------------------- values

None == <<"None">>

\* install_prefix of a run_test call that has not done install_queue.get()
Unset == <<>>

StateNames == {"pass", "fail", "skip", "unsupport"}

FilterChoices == StateNames \cup {"all"}

\* The exit codes a child process is taken to return: success and one failure.
ExitCodes == {0, 7}

NoOutcome == [kind |-> "none"]

Returned(code) == [kind |-> "code", code |-> code]

Raised(err) == [kind |-> "exc", err |-> err]

\* the exceptions of a run, named by the call that raises them
ErrMakedirs == "OSError: os.makedirs"

ErrNoWorkDir == "FileNotFoundError: work_dir"

ErrOpen == "OSError: open"

ErrSpawn == "OSError: subprocess.run"

ErrRemove == "FileNotFoundError: os.remove"

NoLine == [kind |-> "none"]

LineOK == [kind |-> "OK"]

LineFAIL(code) == [kind |-> "FAIL", code |-> code]

LineERROR(err) == [kind |-> "ERROR", err |-> err]

\* ---------------------------------------------------------------- manifests

Suite(folder, info) == [folder |-> folder, info |-> info]

Sub(sub, state) == [sub |-> sub, state |-> state]

FolderNames == {<<"a">>, <<"a", "_", "b">>}

SubNames == {<<"b">>, <<"c">>}

\* The subtest maps of a suite: at most two subtests, distinct keys, any states.
Infos ==
    {<<>>}
    \cup {<<Sub(s, st)>> : s \in SubNames, st \in StateNames}
    \cup {<<Sub(p[1], p[3]), Sub(p[2], p[4])>> :
            p \in {q \in SubNames \X SubNames \X StateNames \X StateNames :
                     q[1] # q[2]}}

\* The manifests of at most two suites with distinct keys.
Manifests ==
    {<<>>}
    \cup {<<Suite(f, i)>> : f \in FolderNames, i \in Infos}
    \cup {<<Suite(p[1], p[3]), Suite(p[2], p[4])>> :
            p \in {q \in FolderNames \X FolderNames \X Infos \X Infos :
                     q[1] # q[2]}}

\* The manifests the whole run is explored on: a suite without subtests whose
\* name is the display name of a subtest of another suite, and the manifest
\* of a plain suite next to a suite with a passing and a failing subtest.
RunManifests ==
    { <<Suite(<<"a", "_", "b">>, <<>>),
        Suite(<<"a">>, <<Sub(<<"b">>, "pass")>>)>>,
      <<Suite(<<"a">>, <<>>),
        Suite(<<"a", "_", "b">>, <<Sub(<<"b">>, "pass"), Sub(<<"c">>, "fail")>>)>> }

RunFilters == {{"pass"}, {"all"}}

\* ---------------------------------------------------------------- task list

\* if subtest: a Python string is true unless it is None or empty
Truthy(sub) == sub # None /\ sub # <<>>

exec_map(folder) ==
    IF folder = <<"math", "_", "brute", "_", "force">> THEN <<"test", "_", "bruteforce">>
    ELSE IF folder = <<"multiple", "_", "device", "_", "context">> THEN <<"test", "_", "multiples">>
    ELSE <<"test", "_">> \o folder

Task(folder, exe, sub) == [folder |-> folder, exe |-> exe, sub |-> sub]

\* the inner loop without the test for "all": only the named states pass
RECURSIVE SubTasks_noall(_, _, _, _)
SubTasks_noall(folder, exe, info, F) ==
    IF info = <<>> THEN <<>>
    ELSE LET sub   == Head(info).sub
             state == Head(info).state
             rest  == SubTasks_noall(folder, exe, Tail(info), F)
         IN IF state \in F
            THEN <<Task(folder, exe, sub)>> \o rest
            ELSE rest

\* the inner loop: for sub, meta in info.items()
RECURSIVE SubTasks(_, _, _, _)
SubTasks(folder, exe, info, F) ==
    IF info = <<>> THEN <<>>
    ELSE LET sub   == Head(info).sub
             state == Head(info).state
             rest  == SubTasks(folder, exe, Tail(info), F)
         IN IF "all" \in F \/ state \in F
            THEN <<Task(folder, exe, sub)>> \o rest
            ELSE rest

\* the outer loop: for folder, info in tests.items()
RECURSIVE TaskList(_, _)
TaskList(T, F) ==
    IF T = <<>> THEN <<>>
    ELSE LET folder == Head(T).folder
             info   == Head(T).info
             exe    == exec_map(folder)
         IN (IF info = <<>>
             THEN <<Task(folder, exe, None)>>
             ELSE SubTasks(folder, exe, info, F))
            \o TaskList(Tail(T), F)

\* test_name / name: the display name of a task
TestName(folder, sub) == IF Truthy(sub) THEN folder \o <<"_">> \o sub ELSE folder

\* log_path / log_file: the log of a task, as its name inside logs_dir
LogPath(folder, sub) == <<"output", "_">> \o TestName(folder, sub) \o <<".log">>

Futures == 1..Len(tasks)

NameOf(t) == TestName(tasks[t].folder, tasks[t].sub)

LogOf(t) == LogPath(tasks[t].folder, tasks[t].sub)

\* ---------------------------------------------------------------- main: start

InitArgs(M, Fs, Ws, Ks) ==
    /\ tests \in M
    /\ filter_state \in Fs
    /\ max_workers \in Ws
    /\ keep_pass_logs \in Ks
    /\ mpc = "build"
    /\ tasks = <<>>
    /\ install_paths = <<>>
    /\ pool_threads = 0
    /\ install_queue = <<>>
    /\ pc = <<>>
    /\ install_prefix = <<>>
    /\ result = <<>>
    /\ outcome = <<>>
    /\ yielded = <<>>
    /\ reported = <<>>
    /\ warned = <<>>
    /\ cur = 0
    /\ cur_line = NoLine
    /\ log_files = {}
    /\ log_written = <<>>
    /\ failures = <<>>
    /\ exit_status = 0

Init == InitArgs(RunManifests, RunFilters, 1..MaxWorkers, BOOLEAN)

\* 3. build the task list and print the count (before any thread exists)
BuildTasks ==
    /\ mpc = "build"
    /\ tasks' = TaskList(tests, filter_state)
    /\ mpc' = "seed"
    /\ UNCHANGED <<tests, log_written, filter_state, max_workers, keep_pass_logs,
                   install_paths, pool_threads, install_queue, pc,
                   install_prefix, result, outcome, yielded, reported, warned, cur, cur_line,
                   log_files, failures, exit_status>>

\* 4.-6. copy the install, fill the queue, create the pool and submit every task
InstallCopy(i) == <<"install", "_", i>>

\* the copies and the pool sized by the number of tasks, not by max_workers
SeedAndSubmit_pertask ==
    /\ mpc = "seed"
    /\ install_paths' = [i \in 1..Len(tasks) |-> InstallCopy(i - 1)]
    /\ install_queue' = install_paths'
    /\ pool_threads' = Len(tasks)
    /\ pc' = [t \in Futures |-> "pending"]
    /\ install_prefix' = [t \in Futures |-> Unset]
    /\ result' = [t \in Futures |-> NoOutcome]
    /\ outcome' = [t \in Futures |-> NoOutcome]
    /\ yielded' = [t \in Futures |-> 0]
    /\ reported' = [t \in Futures |-> <<>>]
    /\ warned' = [t \in Futures |-> 0]
    /\ log_written' = [t \in Futures |-> <<>>]
    /\ mpc' = "collect"
    /\ UNCHANGED <<tests, filter_state, max_workers, keep_pass_logs, tasks,
                   cur, cur_line, log_files, failures, exit_status>>

SeedAndSubmit ==
    /\ mpc = "seed"
    /\ install_paths' = [i \in 1..max_workers |-> InstallCopy(i - 1)]
    /\ install_queue' = install_paths'
    /\ pool_threads' = max_workers
    /\ pc' = [t \in Futures |-> "pending"]
    /\ install_prefix' = [t \in Futures |-> Unset]
    /\ result' = [t \in Futures |-> NoOutcome]
    /\ outcome' = [t \in Futures |-> NoOutcome]
    /\ yielded' = [t \in Futures |-> 0]
    /\ reported' = [t \in Futures |-> <<>>]
    /\ warned' = [t \in Futures |-> 0]
    /\ log_written' = [t \in Futures |-> <<>>]
    /\ mpc' = "collect"
    /\ UNCHANGED <<tests, filter_state, max_workers, keep_pass_logs, tasks,
                   cur, cur_line, log_files, failures, exit_status>>

\* ---------------------------------------------------------------- run_test

\* no bound on the calls run at once: a thread per submitted call
Running_none == {}

\* the run_test calls a pool thread is executing
Running == {t \in Futures : pc[t] \notin {"pending", "done"}}

Started == mpc \notin {"build", "seed"}

\* the future of a call is set when run_test returns or raises
Finish(t, positions) ==
    /\ pc' = [positions EXCEPT ![t] = "done"]
    /\ outcome' = [outcome EXCEPT ![t] = result[t]]

\* the working directory is checked after install_queue.get and outside the
\* try: a call that fails there keeps the copy it took
RunTestPrepare_aftercheckout(t) ==
    /\ Started
    /\ pc[t] = "pending"
    /\ \A u \in Futures : u < t => pc[u] # "pending"
    /\ Cardinality(Running) < pool_threads
    /\ \E ok \in BOOLEAN :
         IF ok
         THEN /\ pc' = [pc EXCEPT ![t] = "get"]
              /\ UNCHANGED <<result, outcome, install_queue>>
         ELSE LET e == IF Truthy(tasks[t].sub) THEN Raised(ErrMakedirs)
                       ELSE Raised(ErrNoWorkDir)
              IN /\ install_queue # <<>>
                 /\ install_queue' = Tail(install_queue)
                 /\ result' = [result EXCEPT ![t] = e]
                 /\ pc' = [pc EXCEPT ![t] = "done"]
                 /\ outcome' = [outcome EXCEPT ![t] = e]
    /\ UNCHANGED <<tests, log_written, filter_state, max_workers,
                   keep_pass_logs, mpc, tasks, install_paths, pool_threads,
                   install_prefix, yielded, reported, warned, cur, cur_line,
                   log_files, failures, exit_status>>

\* a free pool thread takes the oldest pending call and runs 1) of run_test:
\* the working directory is made (subtest) or expected to exist (no subtest)
RunTestPrepare(t) ==
    /\ Started
    /\ pc[t] = "pending"
    /\ \A u \in Futures : u < t => pc[u] # "pending"
    /\ Cardinality(Running) < pool_threads
    /\ \E ok \in BOOLEAN :
         IF ok
         THEN /\ pc' = [pc EXCEPT ![t] = "get"]
              /\ UNCHANGED <<result, outcome>>
         ELSE LET e == IF Truthy(tasks[t].sub) THEN Raised(ErrMakedirs)
                       ELSE Raised(ErrNoWorkDir)
              IN /\ result' = [result EXCEPT ![t] = e]
                 /\ pc' = [pc EXCEPT ![t] = "done"]
                 /\ outcome' = [outcome EXCEPT ![t] = e]
    /\ UNCHANGED <<tests, log_written, filter_state, max_workers, keep_pass_logs, mpc, tasks,
                   install_paths, pool_threads, install_queue, install_prefix,
                   yielded, reported, warned, cur, cur_line, log_files, failures,
                   exit_status>>

\* the head of the queue is read and left in the queue
QueueGet_peek(t) ==
    /\ install_queue # <<>>
    /\ install_prefix' = [install_prefix EXCEPT ![t] = Head(install_queue)]
    /\ UNCHANGED install_queue

\* 2) install_prefix = install_queue.get(): blocks while the queue is empty
QueueGet(t) ==
    /\ install_queue # <<>>
    /\ install_prefix' = [install_prefix EXCEPT ![t] = Head(install_queue)]
    /\ install_queue' = Tail(install_queue)

RunTestGet(t) ==
    /\ Started
    /\ pc[t] = "get"
    /\ QueueGet(t)
    /\ pc' = [pc EXCEPT ![t] = "open"]
    /\ UNCHANGED <<tests, log_written, filter_state, max_workers, keep_pass_logs, mpc, tasks,
                   install_paths, pool_threads, result, outcome, yielded,
                   reported, warned, cur, cur_line, log_files, failures, exit_status>>

\* 1) work_dir and cmd of a call
WorkDir(folder, sub) ==
    IF Truthy(sub) THEN <<"build_root", "/">> \o folder \o <<"/">> \o sub
    ELSE <<"build_root", "/">> \o folder

Cmd(exe, sub) ==
    IF Truthy(sub) THEN <<<<"../">> \o exe, sub>> ELSE <<<<"./">> \o exe>>

\* 4) the header of the log: working directory, command, install copy
Header(t) ==
    [kind |-> "header",
     work_dir |-> WorkDir(tasks[t].folder, tasks[t].sub),
     cmd |-> Cmd(tasks[t].exe, tasks[t].sub),
     install |-> install_prefix[t]]

\* what the child process writes to stdout and stderr
ChildOutput == [kind |-> "output"]

\* the log is opened and the header is left for after the child has run
RunTestOpen_noheader(t) ==
    /\ Started
    /\ pc[t] = "open"
    /\ \E ok \in BOOLEAN :
         IF ok
         THEN /\ log_files' = log_files \cup {LogOf(t)}
              /\ pc' = [pc EXCEPT ![t] = "spawn"]
              /\ UNCHANGED result
         ELSE /\ result' = [result EXCEPT ![t] = Raised(ErrOpen)]
              /\ pc' = [pc EXCEPT ![t] = "put"]
              /\ UNCHANGED log_files
    /\ UNCHANGED <<tests, log_written, filter_state, max_workers,
                   keep_pass_logs, mpc, tasks, install_paths, pool_threads,
                   install_queue, install_prefix, outcome, yielded, reported,
                   warned, cur, cur_line, failures, exit_status>>

\* 3)-4) the environment is built, the log is opened for writing (created or
\* truncated) and the header is written and flushed; open may raise
RunTestOpen(t) ==
    /\ Started
    /\ pc[t] = "open"
    /\ \E ok \in BOOLEAN :
         IF ok
         THEN /\ log_files' = log_files \cup {LogOf(t)}
              /\ log_written' = [log_written EXCEPT ![t] = <<Header(t)>>]
              /\ pc' = [pc EXCEPT ![t] = "spawn"]
              /\ UNCHANGED result
         ELSE /\ result' = [result EXCEPT ![t] = Raised(ErrOpen)]
              /\ pc' = [pc EXCEPT ![t] = "put"]
              /\ UNCHANGED <<log_files, log_written>>
    /\ UNCHANGED <<tests, filter_state, max_workers, keep_pass_logs, mpc, tasks,
                   install_paths, pool_threads, install_queue, install_prefix,
                   outcome, yielded, reported, warned, cur, cur_line, failures,
                   exit_status>>

\* 4) subprocess.run: the spawn raises, or the child runs, writes to the open
\* log and exits with a code; the log is closed on the way out
RunTestSpawn(t) ==
    /\ Started
    /\ pc[t] = "spawn"
    /\ \E r \in {Raised(ErrSpawn)} \cup {Returned(c) : c \in ExitCodes} :
         /\ result' = [result EXCEPT ![t] = r]
         /\ log_written' = IF r.kind = "code"
                           THEN [log_written EXCEPT ![t] = Append(log_written[t], ChildOutput)]
                           ELSE log_written
    /\ pc' = [pc EXCEPT ![t] = "put"]
    /\ UNCHANGED <<tests, filter_state, max_workers, keep_pass_logs, mpc, tasks,
                   install_paths, pool_threads, install_queue, install_prefix,
                   outcome, yielded, reported, warned, cur, cur_line, log_files,
                   failures, exit_status>>

\* the put on the return path only, not in a finally: a call that raises keeps
\* its install copy
QueuePut_onreturn(t) ==
    /\ install_queue' = IF result[t].kind = "exc" THEN install_queue
                        ELSE Append(install_queue, install_prefix[t])
    /\ install_prefix' = [install_prefix EXCEPT ![t] = Unset]

\* 5) finally: install_queue.put(install_prefix)
QueuePut(t) ==
    /\ install_queue' = Append(install_queue, install_prefix[t])
    /\ install_prefix' = [install_prefix EXCEPT ![t] = Unset]

RunTestPut(t) ==
    /\ Started
    /\ pc[t] = "put"
    /\ QueuePut(t)
    /\ IF Truthy(tasks[t].sub)
       THEN /\ pc' = [pc EXCEPT ![t] = "rmtree"]
            /\ UNCHANGED outcome
       ELSE Finish(t, pc)
    /\ UNCHANGED <<tests, log_written, filter_state, max_workers, keep_pass_logs, mpc, tasks,
                   install_paths, pool_threads, result, yielded, reported, warned, cur,
                   cur_line, log_files, failures, exit_status>>

\* 6) finally: shutil.rmtree(work_dir) of a subtest; when it raises, the
\* worker thread calls print and has written the warning to the console
RunTestRmtree(t) ==
    /\ Started
    /\ pc[t] = "rmtree"
    /\ \E ok \in BOOLEAN :
         IF ok
         THEN Finish(t, pc)
         ELSE /\ pc' = [pc EXCEPT ![t] = "warn"]
              /\ UNCHANGED outcome
    /\ UNCHANGED <<tests, log_written, filter_state, max_workers, keep_pass_logs, mpc, tasks,
                   install_paths, pool_threads, install_queue, install_prefix,
                   result, yielded, reported, warned, cur, cur_line, log_files,
                   failures, exit_status>>

\* shutil.rmtree outside any try: its exception replaces what the call was
\* about to return or raise
RunTestWarn_escalate(t) ==
    /\ Started
    /\ pc[t] = "warn"
    /\ warned' = [warned EXCEPT ![t] = warned[t] + 1]
    /\ pc' = [pc EXCEPT ![t] = "done"]
    /\ outcome' = [outcome EXCEPT ![t] = Raised("OSError: shutil.rmtree")]
    /\ UNCHANGED <<tests, log_written, filter_state, max_workers, keep_pass_logs,
                   mpc, tasks, install_paths, pool_threads, install_queue,
                   install_prefix, result, yielded, reported, cur, cur_line,
                   log_files, failures, exit_status>>

\* the rest of print in the worker thread: master_log.write and flush
RunTestWarn(t) ==
    /\ Started
    /\ pc[t] = "warn"
    /\ warned' = [warned EXCEPT ![t] = warned[t] + 1]
    /\ Finish(t, pc)
    /\ UNCHANGED <<tests, log_written, filter_state, max_workers, keep_pass_logs, mpc, tasks,
                   install_paths, pool_threads, install_queue, install_prefix,
                   result, yielded, reported, cur, cur_line, log_files,
                   failures, exit_status>>

\* ---------------------------------------------------------------- main: collect

\* the line main prints for the result of a future
Classify(o) ==
    IF o.kind = "code"
    THEN IF o.code = 0 THEN LineOK ELSE LineFAIL(o.code)
    ELSE LineERROR(o.err)

\* future.result() outside any try: the exception of a call leaves the loop
\* and ends main with a traceback
AsCompleted_notry(t) ==
    /\ mpc = "collect"
    /\ pc[t] = "done"
    /\ yielded[t] = 0
    /\ yielded' = [yielded EXCEPT ![t] = yielded[t] + 1]
    /\ cur' = t
    /\ IF outcome[t].kind = "exc"
       THEN /\ mpc' = "exit"
            /\ exit_status' = 1
            /\ UNCHANGED cur_line
       ELSE /\ cur_line' = Classify(outcome[t])
            /\ mpc' = "print"
            /\ UNCHANGED exit_status
    /\ UNCHANGED <<tests, log_written, filter_state, max_workers, keep_pass_logs, tasks,
                   install_paths, pool_threads, install_queue, pc,
                   install_prefix, result, outcome, reported, warned,
                   log_files, failures>>

\* a call is reported as soon as its result is decided, before its finally
\* clause has run
AsCompleted_early(t) ==
    /\ mpc = "collect"
    /\ pc[t] \in {"put", "rmtree", "warn", "done"}
    /\ yielded[t] = 0
    /\ yielded' = [yielded EXCEPT ![t] = yielded[t] + 1]
    /\ cur' = t
    /\ cur_line' = Classify(result[t])
    /\ mpc' = "print"
    /\ UNCHANGED <<tests, log_written, filter_state, max_workers,
                   keep_pass_logs, tasks, install_paths, pool_threads,
                   install_queue, pc, install_prefix, result, outcome,
                   reported, warned, log_files, failures, exit_status>>

\* as_completed yields a finished future it has not yielded yet; future.result()
\* returns or raises, and main calls print and has written the line to the console
AsCompleted(t) ==
    /\ mpc = "collect"
    /\ pc[t] = "done"
    /\ yielded[t] = 0
    /\ yielded' = [yielded EXCEPT ![t] = yielded[t] + 1]
    /\ cur' = t
    /\ cur_line' = Classify(outcome[t])
    /\ mpc' = "print"
    /\ UNCHANGED <<tests, log_written, filter_state, max_workers, keep_pass_logs, tasks,
                   install_paths, pool_threads, install_queue, pc,
                   install_prefix, result, outcome, reported, warned, log_files,
                   failures, exit_status>>

\* the rest of print in the main thread: master_log.write and flush
PrintWrite ==
    /\ mpc = "print"
    /\ reported' = [reported EXCEPT ![cur] = Append(reported[cur], cur_line)]
    /\ mpc' = "after"
    /\ UNCHANGED <<tests, log_written, filter_state, max_workers, keep_pass_logs, tasks,
                   install_paths, pool_threads, install_queue, pc,
                   install_prefix, result, outcome, yielded, warned, cur, cur_line,
                   log_files, failures, exit_status>>

\* the end of an iteration of the loop over as_completed: the loop variables
\* of the iteration are not read again
EndIteration ==
    /\ mpc' = "collect"
    /\ cur' = 0
    /\ cur_line' = NoLine

\* what follows the print of a line inside the try of the loop body: after OK
\* the log is removed unless keep_pass_logs, and os.remove of a missing file
\* raises into the except clause, which prints an ERROR line; after FAIL and
\* after ERROR the task is appended to failures
AfterLine ==
    /\ mpc = "after"
    /\ IF cur_line.kind = "OK"
       THEN IF keep_pass_logs
            THEN /\ EndIteration
                 /\ UNCHANGED <<log_files, failures>>
            ELSE IF LogOf(cur) \in log_files
                 THEN /\ log_files' = log_files \ {LogOf(cur)}
                      /\ EndIteration
                      /\ UNCHANGED failures
                 ELSE /\ cur_line' = LineERROR(ErrRemove)
                      /\ mpc' = "print"
                      /\ UNCHANGED <<log_files, failures, cur>>
       ELSE /\ failures' = Append(failures,
                                  <<NameOf(cur),
                                    IF cur_line.kind = "FAIL"
                                    THEN Returned(cur_line.code)
                                    ELSE Raised(cur_line.err)>>)
            /\ EndIteration
            /\ UNCHANGED log_files
    /\ UNCHANGED <<tests, log_written, filter_state, max_workers,
                   keep_pass_logs, tasks, install_paths, pool_threads,
                   install_queue, pc, install_prefix, result, outcome, yielded,
                   reported, warned, exit_status>>

\* as_completed exhausted as soon as one future was yielded (the loop waits
\* for the first completion only)
AllCollected_first == Futures = {} \/ \E t \in Futures : yielded[t] > 0

\* as_completed is exhausted when it has yielded every future
AllCollected == \A t \in Futures : yielded[t] > 0

\* 7. the summary: exit(1) when failures is not empty, else main returns
Summarise ==
    /\ mpc = "collect"
    /\ AllCollected
    /\ exit_status' = IF failures # <<>> THEN 1 ELSE 0
    /\ mpc' = "exit"
    /\ UNCHANGED <<tests, log_written, filter_state, max_workers, keep_pass_logs, tasks,
                   install_paths, pool_threads, install_queue, pc,
                   install_prefix, result, outcome, yielded, reported, warned, cur,
                   cur_line, log_files, failures>>

\* ---------------------------------------------------------------- specifications

Next ==
    \/ BuildTasks
    \/ SeedAndSubmit
    \/ \E t \in Futures : RunTestPrepare(t)
    \/ \E t \in Futures : RunTestGet(t)
    \/ \E t \in Futures : RunTestOpen(t)
    \/ \E t \in Futures : RunTestSpawn(t)
    \/ \E t \in Futures : RunTestPut(t)
    \/ \E t \in Futures : RunTestRmtree(t)
    \/ \E t \in Futures : RunTestWarn(t)
    \/ \E t \in Futures : AsCompleted(t)
    \/ PrintWrite
    \/ AfterLine
    \/ Summarise

Spec == Init /\ [][Next]_vars

\* the steps of the pool thread that runs call t
RunTestStep(t) ==
    \/ RunTestPrepare(t)
    \/ RunTestGet(t)
    \/ RunTestOpen(t)
    \/ RunTestSpawn(t)
    \/ RunTestPut(t)
    \/ RunTestRmtree(t)
    \/ RunTestWarn(t)

\* the steps of the main thread
MainStep ==
    \/ BuildTasks
    \/ SeedAndSubmit
    \/ \E t \in Futures : AsCompleted(t)
    \/ PrintWrite
    \/ AfterLine
    \/ Summarise

\* the runs explored under fairness: two tasks on any number of workers (more
\* tasks than workers, as many, fewer), and the unfiltered manifests (two and
\* three tasks) on fewer workers than the most; keep_pass_logs plays no part
\* in blocking
InitFair ==
    \/ InitArgs(RunManifests, {{"pass"}}, 1..MaxWorkers, {FALSE})
    \/ InitArgs(RunManifests, {{"all"}}, 1..(MaxWorkers - 1), {FALSE})

\* the run under fair scheduling: the main thread is not starved, and the
\* pool threads are not starved while one of them can step (a child process
\* that was spawned exits, a thread that can take a copy takes it)
FairSpec ==
    /\ InitFair
    /\ [][Next]_vars
    /\ WF_vars(MainStep)
    /\ WF_vars(\E t \in Futures : RunTestStep(t))

\* the construction of the task list alone, on every manifest and filter
InitTasks == InitArgs(Manifests, SUBSET FilterChoices \ {{}}, {1}, {FALSE})

NextTasks == BuildTasks

SpecTasks == InitTasks /\ [][NextTasks]_vars

\* ---------------------------------------------------------------- properties

\* the submitted run_test calls (none before the pool exists)
Calls == DOMAIN pc

\* the calls between install_queue.get and install_queue.put
Holders == {t \in Calls : install_prefix[t] # Unset}

Range(q) == {q[i] : i \in DOMAIN q}

\* C1: once the loop over as_completed has finished, every submitted task has
\* exactly one outcome (an exit code or an exception) and was yielded once:
\* as many outcomes as tasks, none missing, none twice.
C1_OneOutcomePerTask ==
    mpc = "exit" =>
        /\ Calls = 1..Len(tasks)
        /\ \A t \in Calls :
             /\ pc[t] = "done"
             /\ outcome[t].kind \in {"code", "exc"}
             /\ yielded[t] = 1

C1_Witness ==
    /\ mpc = "exit"
    /\ Len(tasks) = 3
    /\ \E t, u, v \in Calls :
         /\ outcome[t].kind = "exc"
         /\ outcome[u] = Returned(0)
         /\ outcome[v] = Returned(7)

\* C2: every install copy taken from install_queue is put back exactly once on
\* every exit path: a finished call holds none, and after the run the queue
\* holds each of the max_workers copies exactly once.
C2_HandlesReturned ==
    /\ \A t \in Calls : pc[t] \in {"rmtree", "warn", "done"} => install_prefix[t] = Unset
    /\ mpc = "exit" =>
         /\ Len(install_queue) = max_workers
         /\ Len(install_queue) = Len(install_paths)
         /\ \A i \in DOMAIN install_paths :
              Cardinality({j \in DOMAIN install_queue :
                             install_queue[j] = install_paths[i]}) = 1

\* a run in which open raised, subprocess.run raised and a child exited with
\* a code, each while its call held an install copy
C2_Witness ==
    /\ mpc = "exit"
    /\ Len(install_queue) = max_workers
    /\ \E t, u, v \in Calls :
         /\ outcome[t] = Raised(ErrOpen)
         /\ outcome[u] = Raised(ErrSpawn)
         /\ outcome[v].kind = "code"

\* C3: at most max_workers calls hold an install copy at any instant.
C3_AtMostWHolders == Cardinality(Holders) <= max_workers

C3_Witness ==
    /\ max_workers = MaxWorkers
    /\ Cardinality(Holders) = max_workers
    /\ \E t \in Calls : pc[t] = "pending"

\* C4: no install copy is held by two calls at once, and no install copy is
\* in the queue while a call holds it.
C4_MutualExclusion ==
    /\ \A t, u \in Holders : t # u => install_prefix[t] # install_prefix[u]
    /\ \A t \in Holders : install_prefix[t] \notin Range(install_queue)

C4_Witness ==
    \E t, u \in Holders :
        /\ t # u
        /\ pc[t] = "spawn"
        /\ pc[u] = "spawn"

\* C5: the exit status is 1 exactly when some task's outcome is not exit code
\* 0, and 0 when every outcome is exit code 0, also when removing the log of a
\* passing task fails.
C5_ExitStatusIffFailure ==
    mpc = "exit" =>
        (exit_status = 1 <=> \E t \in Calls : outcome[t] # Returned(0))

\* C6: every task gets exactly one result line over the run: never more than
\* one at any time, and one when the run has ended.
C6_OneLinePerTask ==
    /\ \A t \in Calls : Len(reported[t]) <= 1
    /\ mpc = "exit" => \A t \in Calls : Len(reported[t]) = 1

\* the positions <<i, j>> of the manifest that make a task: suite i without
\* subtests (j = 0), or subtest j of suite i with an accepted state
Selected(T, F) ==
    {<<i, 0>> : i \in {k \in DOMAIN T : T[k].info = <<>>}}
    \cup UNION {{<<i, j>> : j \in {k \in DOMAIN T[i].info :
                                      "all" \in F \/ T[i].info[k].state \in F}} :
                i \in DOMAIN T}

Before(p, q) == p[1] < q[1] \/ (p[1] = q[1] /\ p[2] < q[2])

\* C7: the task list is, in manifest order, every suite with an empty subtest
\* map as (suite, None) and every subtest whose state is in the filter, or
\* every subtest when the filter contains "all"; nothing else is in it.
C7_TaskListIsFilteredManifest ==
    mpc # "build" =>
        LET S == Selected(tests, filter_state)
        IN /\ Len(tasks) = Cardinality(S)
           /\ \A p \in S :
                LET k == Cardinality({q \in S : Before(q, p)}) + 1
                IN /\ tasks[k].folder = tests[p[1]].folder
                   /\ tasks[k].sub = IF p[2] = 0 THEN None
                                     ELSE tests[p[1]].info[p[2]].sub

\* the example of the claim, with a for suiteA, a_b for suiteB, b for sub1
\* and c for sub2
C7_Witness ==
    /\ mpc = "seed"
    /\ tests = <<Suite(<<"a">>, <<>>),
                 Suite(<<"a", "_", "b">>,
                       <<Sub(<<"b">>, "pass"), Sub(<<"c">>, "fail")>>)>>
    /\ filter_state = {"pass"}
    /\ Len(tasks) = 2
    /\ tasks[1].folder = <<"a">> /\ tasks[1].sub = None
    /\ tasks[2].folder = <<"a", "_", "b">> /\ tasks[2].sub = <<"b">>

\* C8: a call that raised (no working directory, or any exception) is
\* reported ERROR once and recorded in failures, every other task has run and
\* has its own outcome, and the exit status is 1.
C8_ErrorIsolation ==
    mpc = "exit" =>
        \A t \in Calls :
            outcome[t].kind = "exc" =>
                /\ reported[t] = <<LineERROR(outcome[t].err)>>
                /\ \E k \in DOMAIN failures : failures[k] = <<NameOf(t), outcome[t]>>
                /\ \A u \in 1..Len(tasks) :
                     /\ u \in Calls
                     /\ pc[u] = "done"
                     /\ outcome[u].kind \in {"code", "exc"}
                     /\ Len(reported[u]) >= 1
                /\ exit_status = 1

C8_Witness ==
    /\ mpc = "exit"
    /\ \E t, u \in Calls :
         /\ ~Truthy(tasks[t].sub)
         /\ outcome[t] = Raised(ErrNoWorkDir)
         /\ t < u
         /\ outcome[u] = Returned(0)
         /\ reported[u] = <<LineOK>>

\* C9: after the run, the log of a task that exited 0 is present exactly when
\* keep_pass_logs is set, and the log of a task that exited non-zero is present.
C9_LogRetention ==
    mpc = "exit" =>
        \A t \in Calls :
            outcome[t].kind = "code" =>
                IF outcome[t].code = 0
                THEN (LogOf(t) \in log_files <=> keep_pass_logs)
                ELSE LogOf(t) \in log_files

\* the threads inside print: between the write to the console and the end of
\* master_log.write and flush (0 is the main thread)
InPrint ==
    {t \in Calls : pc[t] = "warn"} \cup (IF mpc = "print" THEN {0} ELSE {})

\* C10: at no instant are two threads inside the write to the master log.
C10_MasterLogSerialized == Cardinality(InPrint) <= 1

\* C11: with max_workers copies in the queue and max_workers pool threads,
\* under fair scheduling and with every child exiting, no call stays in
\* install_queue.get forever: every submitted call finishes and main reaches
\* its summary and exits.
C11_NoPermanentBlock ==
    <>(/\ mpc = "exit"
       /\ Calls = 1..Len(tasks)
       /\ \A t \in Calls : pc[t] = "done")

\* a finished run of more tasks than workers
C11_Witness ==
    /\ mpc = "exit"
    /\ \A t \in Calls : pc[t] = "done"
    /\ Len(tasks) = 3
    /\ max_workers = 1

\* C12: two distinct tasks of a run have distinct display names and distinct
\* log files.
C12_DistinctLogFiles ==
    \A t, u \in Futures :
        t # u => NameOf(t) # NameOf(u) /\ LogOf(t) # LogOf(u)

\* how many times copy h is in the queue or held by a call
Copies(h) ==
    Cardinality({j \in DOMAIN install_queue : install_queue[j] = h})
    + Cardinality({t \in Calls : install_prefix[t] = h})

C14_CleanupErrorKeepsOutcome ==
    \A t \in Calls :
        /\ pc[t] \in {"rmtree", "warn"} => install_prefix[t] = Unset
        /\ warned[t] <= 1
        /\ pc[t] = "done" => outcome[t] = result[t]
        /\ (pc[t] = "done" /\ warned[t] > 0) =>
             /\ Truthy(tasks[t].sub)
             /\ outcome[t] \in {Raised(ErrOpen), Raised(ErrSpawn)}
                                \cup {Returned(c) : c \in ExitCodes}
             /\ outcome[t].kind = "code" <=> Len(log_written[t]) = 2
             /\ outcome[t] = Raised(ErrOpen) <=> log_written[t] = <<>>
        /\ reported[t] # <<>> => reported[t][1] = Classify(result[t])

C14_Witness ==
    /\ mpc = "exit"
    /\ Len(install_queue) = max_workers
    /\ \E t, u \in Calls :
         /\ warned[t] = 1
         /\ outcome[t] = Returned(0)
         /\ reported[t] = <<LineOK>>
         /\ warned[u] = 1
         /\ outcome[u] = Raised(ErrSpawn)
         /\ reported[u] = <<LineERROR(ErrSpawn)>>

\* C15: a task is reported OK exactly when its child ran and returned 0, FAIL
\* with the code exactly when its child ran and returned a non-zero code, and
\* ERROR with the message exactly when run_test raised.
C15_ReporterClassification ==
    \A t \in Calls :
        \A k \in DOMAIN reported[t] :
            /\ reported[t][k].kind = "OK" <=> outcome[t] = Returned(0)
            /\ reported[t][k].kind = "FAIL" <=>
                 (outcome[t].kind = "code" /\ outcome[t].code # 0
                    /\ reported[t][k] = LineFAIL(outcome[t].code))
            /\ reported[t][k].kind = "ERROR" <=>
                 (outcome[t].kind = "exc"
                    /\ reported[t][k] = LineERROR(outcome[t].err))

\* C16: inside one call, the header (working directory, command, install
\* copy in use) is the first thing written to the log and is written before
\* the child is spawned; the child is spawned only while the call holds a
\* copy; the output of the child comes after the header.
C16_HeaderBeforeSpawn ==
    \A t \in Calls :
        /\ pc[t] = "spawn" =>
             /\ install_prefix[t] # Unset
             /\ log_written[t] = <<Header(t)>>
        /\ result[t] \in {Raised(ErrSpawn)} \cup {Returned(c) : c \in ExitCodes} =>
             /\ log_written[t] # <<>>
             /\ log_written[t][1].kind = "header"
             /\ log_written[t][1].install \in Range(install_paths)
             /\ log_written[t][1].work_dir = WorkDir(tasks[t].folder, tasks[t].sub)
             /\ log_written[t][1].cmd = Cmd(tasks[t].exe, tasks[t].sub)
        /\ \A k \in DOMAIN log_written[t] :
             log_written[t][k] = ChildOutput => k = 2 /\ result[t].kind = "code"
        /\ result[t].kind = "code" => Len(log_written[t]) = 2 /\ log_written[t][2] = ChildOutput

C16_Witness ==
    \E t \in Calls :
        /\ pc[t] = "put"
        /\ Truthy(tasks[t].sub)
        /\ install_prefix[t] = InstallCopy(1)
        /\ result[t] = Returned(7)
        /\ log_written[t] = <<Header(t), ChildOutput>>

\* the identities (suite, subtest) of the futures main has collected
OutcomeIdentities ==
    {<<tasks[t].folder, tasks[t].sub>> :
       t \in {u \in Calls : yielded[u] > 0 /\ outcome[u].kind # "none"}}

\* C17: the set of task identities in the outcomes of a finished run is the
\* set of identities selected from the manifest by the filter: it depends on
\* the task set alone, not on the interleaving or on what the tasks did, so
\* two runs of the same task set give the same set.
C17_OutcomeSetDetermined ==
    mpc = "exit" =>
        OutcomeIdentities =
            {<<tests[p[1]].folder,
               IF p[2] = 0 THEN None ELSE tests[p[1]].info[p[2]].sub>> :
               p \in Selected(tests, filter_state)}

\* a run whose outcomes arrived in another order than the tasks were submitted
C17_Witness ==
    /\ mpc = "exit"
    /\ Len(tasks) = 3
    /\ Len(failures) = 2
    /\ failures[1][1] = NameOf(3)
    /\ failures[2][1] = NameOf(1)
    /\ Cardinality(OutcomeIdentities) = 3

\* C18: whenever a call is at install_queue.get, the queue is not empty.
C18_CheckoutNeverBlocks ==
    \A t \in Calls : pc[t] = "get" => install_queue # <<>>

\* a call at get while every other pool thread holds a copy and a task waits
C18_Witness ==
    /\ max_workers = MaxWorkers
    /\ Len(install_queue) = 1
    /\ Cardinality(Holders) = max_workers - 1
    /\ \E t, u \in Calls : pc[t] = "get" /\ pc[u] = "pending"

\* C19: a call whose working directory cannot be made or is missing fails
\* before install_queue.get: the step in which it fails leaves the queue, the
\* copies held and the log files as they were, and the call is finished at
\* once, holding no copy, having written no log and occupying no pool thread.
C19_PrepareFailsBeforeCheckout ==
    /\ [](\A t \in Calls :
            result[t] \in {Raised(ErrMakedirs), Raised(ErrNoWorkDir)} =>
                /\ pc[t] = "done"
                /\ t \notin Running
                /\ install_prefix[t] = Unset
                /\ log_written[t] = <<>>)
    /\ [][\A t \in Calls :
            (pc[t] = "pending" /\ pc'[t] = "done") =>
                /\ result'[t] \in {Raised(ErrMakedirs), Raised(ErrNoWorkDir)}
                /\ install_queue' = install_queue
                /\ install_prefix' = install_prefix
                /\ log_files' = log_files
                /\ log_written' = log_written]_vars

C19_Witness ==
    /\ mpc = "collect"
    /\ Len(install_queue) = max_workers - 1
    /\ \E t, u \in Calls :
         /\ outcome[t] = Raised(ErrNoWorkDir)
         /\ log_written[t] = <<>>
         /\ LogOf(t) \notin log_files
         /\ pc[u] = "spawn"

\* C20: when main prints the line of a task, and when it removes the log of
\* a passing task, the call of that task has finished: it holds no copy and
\* has closed the log it opened; once every task has a line, all max_workers
\* copies are in the queue.
C20_ReleaseBeforeReport ==
    /\ mpc \in {"print", "after"} =>
         /\ pc[cur] = "done"
         /\ install_prefix[cur] = Unset
         /\ cur \notin Holders
    /\ (Started /\ \A t \in Calls : reported[t] # <<>>) =>
         /\ Holders = {}
         /\ Len(install_queue) = max_workers

\* main about to remove the log of a passing task while another call runs
C20_Witness ==
    /\ mpc = "after"
    /\ cur_line = LineOK
    /\ ~keep_pass_logs
    /\ LogOf(cur) \in log_files
    /\ install_prefix[cur] = Unset
    /\ \E u \in Calls : pc[u] = "spawn"

====
